---- MODULE Spec2Model ----
(***************************************************************************)
(* A model of bewakes/garble-circuit-poc: truth-table gates, the garbled   *)
(* table of one gate, the partially applied table, the commutative         *)
(* double-encryption exchange of src/main.rs, the additive encryption      *)
(* scheme and the compact-tree circuit evaluator.                          *)
(*                                                                         *)
(* u64 values keep their full 64-bit width: a value is a tuple of four     *)
(* 16-bit limbs, least significant first, and +, - and * are computed      *)
(* limb by limb with carry and borrow.  Rust's +, - and * on u64 abort     *)
(* (panic) on overflow when the build has overflow checks (the debug       *)
(* profile) and wrap modulo 2^64 when it has not (the release profile);    *)
(* the variable overflow_checks is the profile of the build, chosen by     *)
(* Init.                                                                   *)
(***************************************************************************)
EXTENDS Integers, Sequences, FiniteSets, TLC

VARIABLES
    overflow_checks,        \* the build aborts on u64 overflow (debug) or wraps (release)
    hasher,                 \* the implementation of Garbled::hash
    \* ---- src/main.rs: the walkthrough of the protocol
    pc,                     \* the position of main
    garbled_nand,           \* SimpleGarbledGate {master_secret, gate}
    garbled_and_table,      \* GarbledTable {input_hash_map, input_enc_map, hash_out_map}
    alice_bit,
    partial_applied_table,  \* PartialAppliedGarbledTable {inps_sorted, hash_outputs}
    alice_enc,              \* SimpleEncryptionScheme(alice_secret)
    bob_enc,                \* SimpleEncryptionScheme(bob_secret)
    bob_received_inputs,
    bob_bit,
    bob_encrypted,
    alice_decrypted,
    bob_decrypted,
    lookup,                 \* [hash, result]: the hash Bob computes and garbled_to_bob.get(&hash)
    \* ---- src/encryption.rs: two schemes applied in turn to one value
    enc_a,                  \* SimpleEncryptionScheme(a)
    enc_b,                  \* SimpleEncryptionScheme(b)
    value0,                 \* the value the calls started from
    cur_value,              \* the result of the last call, or the abort
    applied,                \* the calls made so far, in order
    \* ---- src/gate.rs: a gate and the last call of evaluate
    gate_name,              \* "none", the name of a constant, or "from_table"
    gate_rows,              \* the rows given to from_table
    gate_obj,               \* Gate {table}
    eval_input,
    eval_result,            \* the Bit returned by evaluate, or the abort
    \* ---- src/circuit.rs: Circuit
    circ_pc,                \* "new", "returned" or "aborted"
    gates,
    input,
    circuit_trees,
    gate_evals,
    output,                 \* the Vec<Bit> the last eval() returned
    eval_calls,             \* the number of calls of eval() so far
    \* ---- src/gate.rs: BitArray<I> and its conversions from and to usize
    ba_arity,               \* I
    ba_value0,              \* the usize or the [Bit; I] the calls started from
    ba_bits,                \* the last BitArray<I> (its inner array)
    ba_usize,               \* the last usize
    ba_calls,               \* the conversions made so far, in order
    \* ---- src/circuit.rs: one CircuitTree
    tree_pc,                \* "open", or "aborted" after a failed assert
    tree_inner,             \* CircuitTree {inner}
    tree_pushes,            \* the pushes that returned, in order: <<kind, index>>
    tree_rejected,          \* the push that aborted: <<kind, index>>
    tree_got,               \* the last call of get: its argument and its result
    \* ---- src/garble.rs: compute_garble_table of a gate of any arity
    kg_pc,                  \* "new", "returned" or "aborted"
    kg_garbled,             \* SimpleGarbledGate {master_secret, gate}
    kg_pwds,                \* the Vec pwds of compute_garble_table
    kg_table,               \* the GarbledTable returned
    \* ---- Garbled::encrypt_with and decrypt_with of the two implementations
    wire_impl,              \* "SimpleGarbledGate" (garble.rs) or "GarbledGate" (lib.rs)
    wire_secret,
    wire_bit,
    wire_enc,               \* the result of encrypt_with
    wire_dec,               \* the result of decrypt_with
    wire_pc,                \* "new", "encrypted", "decrypted" or "aborted"
    \* ---- src/circuit.rs: one call of eval(), a call of eval_tree at a time
    st_pc,                  \* "new", "running", "returned" or "aborted"
    st_stack,               \* the calls of eval_tree in progress, the innermost last
    st_evals,               \* the local evals of eval
    st_tree,                \* the tree the map of eval is at (from 1)
    st_out,                 \* the Bits collected so far
    st_ret                  \* the Bit the call that just ended returned

otVars == <<pc, garbled_nand, garbled_and_table, alice_bit, partial_applied_table,
            alice_enc, bob_enc, bob_received_inputs, bob_bit, bob_encrypted,
            alice_decrypted, bob_decrypted, lookup>>

encVars == <<enc_a, enc_b, value0, cur_value, applied>>

gateVars == <<gate_name, gate_rows, gate_obj, eval_input, eval_result>>

circVars == <<circ_pc, gates, input, circuit_trees, gate_evals, output, eval_calls>>

bitVars == <<ba_arity, ba_value0, ba_bits, ba_usize, ba_calls>>

treeVars == <<tree_pc, tree_inner, tree_pushes, tree_rejected, tree_got>>

keyVars == <<kg_pc, kg_garbled, kg_pwds, kg_table>>

wireVars == <<wire_impl, wire_secret, wire_bit, wire_enc, wire_dec, wire_pc>>

stepVars == <<st_pc, st_stack, st_evals, st_tree, st_out, st_ret>>

libVars == <<bitVars, treeVars, keyVars, wireVars, stepVars>>

vars == <<overflow_checks, hasher, otVars, encVars, gateVars, circVars, libVars>>

-----------------------------------------------------------------------------
(* Bounds of the model *)

\* Small secrets are 0 .. MaxSecret; the large ones are 2^64 - 1 - k, k < MaxSecret.
MaxSecret == 2

\* The calls of encrypt and decrypt made in a row on one value.
MaxApplied == 4

\* The rows given to from_table are drawn from the first MaxRowPool of the
\* eight rows <<input, output>> of arity 2, in the order of RowPool.
MaxRowPool == 6

\* Circuits have gates 0 .. MaxGateIdx and inputs 0 .. MaxInputIdx, at most
\* MaxTrees trees, and eval() is called at most MaxEvals times.
MaxGateIdx == 1
MaxInputIdx == 1
MaxTrees == 2
MaxEvals == 2

\* compute_garble_table is called on gates of the arities 1 .. MaxArity.
MaxArity == 3

\* A CircuitTree receives at most MaxPushes pushes.
MaxPushes == 3

\* BitArray<I> is converted for the arities I in 0 .. MaxBits.
MaxBits == 4

-----------------------------------------------------------------------------
(* u64 arithmetic on four 16-bit limbs *)

Base == 2^16

Zero64 == <<0, 0, 0, 0>>

\* The u64 of a natural number below 2^31.
U64(n) == <<n % Base, (n \div Base) % Base, 0, 0>>

Max64 == <<Base - 1, Base - 1, Base - 1, Base - 1>>

\* The outcome of an operation that may abort.
Ok(v) == [ok |-> TRUE, v |-> v]
Panic == [ok |-> FALSE, v |-> Zero64]

\* a + b modulo 2^64 and the carry out.
AddCarry(a, b) ==
    LET s1 == a[1] + b[1]
        s2 == a[2] + b[2] + (s1 \div Base)
        s3 == a[3] + b[3] + (s2 \div Base)
        s4 == a[4] + b[4] + (s3 \div Base)
    IN  [v |-> <<s1 % Base, s2 % Base, s3 % Base, s4 % Base>>, c |-> s4 \div Base]

\* a - b modulo 2^64 and the borrow out.
SubBorrow(a, b) ==
    LET d1 == a[1] - b[1]
        b1 == IF d1 < 0 THEN 1 ELSE 0
        d2 == a[2] - b[2] - b1
        b2 == IF d2 < 0 THEN 1 ELSE 0
        d3 == a[3] - b[3] - b2
        b3 == IF d3 < 0 THEN 1 ELSE 0
        d4 == a[4] - b[4] - b3
        b4 == IF d4 < 0 THEN 1 ELSE 0
    IN  [v |-> <<d1 % Base, d2 % Base, d3 % Base, d4 % Base>>, c |-> b4]

\* a * k modulo 2^64 and the carry out, for a small factor k.
MulCarry(a, k) ==
    LET m1 == a[1] * k
        m2 == a[2] * k + (m1 \div Base)
        m3 == a[3] * k + (m2 \div Base)
        m4 == a[4] * k + (m3 \div Base)
    IN  [v |-> <<m1 % Base, m2 % Base, m3 % Base, m4 % Base>>, c |-> m4 \div Base]

WrappingAdd(a, b) == AddCarry(a, b).v
WrappingSub(a, b) == SubBorrow(a, b).v

\* Rust's a + b, a - b and a * k on u64.
Add(a, b) ==
    LET r == AddCarry(a, b)
    IN  IF r.c # 0 /\ overflow_checks THEN Panic ELSE Ok(r.v)

Sub(a, b) ==
    LET r == SubBorrow(a, b)
    IN  IF r.c # 0 /\ overflow_checks THEN Panic ELSE Ok(r.v)

Mul(a, k) ==
    LET r == MulCarry(a, k)
    IN  IF r.c # 0 /\ overflow_checks THEN Panic ELSE Ok(r.v)

\* a < b on u64.
Less64(a, b) == SubBorrow(a, b).c = 1

-----------------------------------------------------------------------------
(* Bit *)

Bit == {"Zero", "One"}

\* impl From<u64> for Bit
BitFromU64(v) == IF v = Zero64 THEN "Zero" ELSE "One"

\* impl From<Bit> for u64
BitIntoU64(b) == IF b = "Zero" THEN U64(0) ELSE U64(1)

\* derive(PartialOrd, Ord): Zero < One, arrays compare lexicographically.
BitRank(b) == IF b = "Zero" THEN 0 ELSE 1

RECURSIVE CmpBits(_, _)
CmpBits(x, y) ==
    IF x = <<>> \/ y = <<>>
    THEN IF Len(x) < Len(y) THEN "Less" ELSE IF Len(x) > Len(y) THEN "Greater" ELSE "Equal"
    ELSE IF BitRank(Head(x)) < BitRank(Head(y)) THEN "Less"
    ELSE IF BitRank(Head(x)) > BitRank(Head(y)) THEN "Greater"
    ELSE CmpBits(Tail(x), Tail(y))

\* BitArray<I>::from(usize) with the least significant bit first.
RECURSIVE from_usize_lsb_first(_, _)
from_usize_lsb_first(value, I) ==
    IF I = 0 THEN <<>>
    ELSE <<BitFromU64(U64(value % 2))>> \o from_usize_lsb_first(value \div 2, I - 1)

\* impl From<usize> for BitArray<I>: res[i] = v % 2 and v >>= 1, for i from
\* I - 1 down to 0.
RECURSIVE from_usize(_, _)
from_usize(value, I) ==
    IF I = 0 THEN <<>>
    ELSE Append(from_usize(value \div 2, I - 1), BitFromU64(U64(value % 2)))

\* impl From<BitArray<I>> for usize: sum <<= 1 and sum |= bit, over the bits
\* in order; the arities of the model keep sum far below 2^64.
RECURSIVE into_usize(_)
into_usize(inner) ==
    IF inner = <<>> THEN 0
    ELSE 2 * into_usize(SubSeq(inner, 1, Len(inner) - 1))
         + BitIntoU64(inner[Len(inner)])[1]

-----------------------------------------------------------------------------
(* Gate<I>: a table of 1 << I rows <<input, output>> *)

Row(i0, i1, o) == <<<<i0, i1>>, o>>

ANDGATE == << Row("Zero", "Zero", "Zero"), Row("Zero", "One", "Zero"),
              Row("One", "Zero", "Zero"),  Row("One", "One", "One") >>

ORGATE == << Row("Zero", "Zero", "Zero"), Row("Zero", "One", "One"),
             Row("One", "Zero", "One"),   Row("One", "One", "One") >>

XORGATE == << Row("Zero", "Zero", "Zero"), Row("Zero", "One", "One"),
              Row("One", "Zero", "One"),   Row("One", "One", "Zero") >>

NANDGATE == << Row("Zero", "Zero", "One"), Row("Zero", "One", "One"),
               Row("One", "Zero", "One"),  Row("One", "One", "Zero") >>

StandardGates == {ANDGATE, ORGATE, XORGATE, NANDGATE}

Inputs2 == {<<a, b>> : a \in Bit, b \in Bit}

\* slice::sort_by, a stable sort: insertion of each row after the rows not greater.
RECURSIVE InsertRow(_, _)
InsertRow(sorted, row) ==
    IF sorted = <<>> THEN <<row>>
    ELSE IF CmpBits(row[1], Head(sorted)[1]) = "Less"
         THEN <<row>> \o sorted
         ELSE <<Head(sorted)>> \o InsertRow(Tail(sorted), row)

RECURSIVE SortRows(_)
SortRows(rows) ==
    IF rows = <<>> THEN <<>>
    ELSE InsertRow(SortRows(SubSeq(rows, 1, Len(rows) - 1)), rows[Len(rows)])

\* from_table keeping the rows in the order given.
from_table_unsorted(rows) == rows

\* Gate::from_table
from_table(rows) == SortRows(rows)

\* slice::binary_search_by, with indices from 0: the loop halves the range
\* [base, base + size) and the last probe decides.
RECURSIVE BinarySearchLoop(_, _, _, _)
BinarySearchLoop(table, inp, base, size) ==
    IF size > 1
    THEN LET half == size \div 2
             mid  == base + half
             cmp  == CmpBits(table[mid + 1][1], inp)
         IN  BinarySearchLoop(table, inp,
                              IF cmp = "Greater" THEN base ELSE mid, size - half)
    ELSE IF CmpBits(table[base + 1][1], inp) = "Equal"
         THEN [found |-> TRUE, idx |-> base]
         ELSE [found |-> FALSE, idx |-> base]

binary_search_by(table, inp) ==
    IF Len(table) = 0 THEN [found |-> FALSE, idx |-> 0]
    ELSE BinarySearchLoop(table, inp, 0, Len(table))

\* evaluate reading the row after the one found.
evaluate_row_after(gate, inp) ==
    LET r == binary_search_by(gate, inp)
    IN  IF r.found THEN [ok |-> TRUE, v |-> gate[((r.idx + 1) % Len(gate)) + 1][2]]
        ELSE [ok |-> FALSE, v |-> "Zero"]

\* Gate::evaluate: the output of the row found, or an abort
\* ("Table does not have input").
evaluate(gate, inp) ==
    LET r == binary_search_by(gate, inp)
    IN  IF r.found THEN [ok |-> TRUE, v |-> gate[r.idx + 1][2]]
        ELSE [ok |-> FALSE, v |-> "Zero"]

\* Gate::table
table_of(gate) == gate

-----------------------------------------------------------------------------
(* HashMap: a function on the set of its keys *)

EmptyMap == <<>>

\* HashMap::insert: a later value replaces an earlier one under the same key.
MapInsert(m, k, val) ==
    [x \in (DOMAIN m) \cup {k} |-> IF x = k THEN val ELSE m[x]]

\* The orders in which a HashMap may iterate its keys.
IterationOrders(S) ==
    {s \in [1..Cardinality(S) -> S] : \A i, j \in 1..Cardinality(S) : s[i] = s[j] => i = j}

-----------------------------------------------------------------------------
(* impl Garbled<I> for SimpleGarbledGate<I> *)

\* The number of derived secrets compute_garble_table takes.
NumPwds == 12

\* Garbled::hash is left to the implementor.  SimpleGarbledGate::hash is
\* DefaultHasher over the eight bytes of a u64, an algorithm the standard
\* library leaves unspecified; the model has a fixed one-to-one mixing of the
\* value in its place: the limbs in reverse order, each mapped by an affine
\* bijection of 16 bits.  The other hasher of the model is one under which
\* distinct values collide: it keeps the lowest bit of the value.
Hashers == {"DefaultHasher", "LowBit"}

MixLimb(l) == (l * 5 + 1) % Base

hash(v) ==
    IF hasher = "DefaultHasher"
    THEN <<MixLimb(v[4]), MixLimb(v[3]), MixLimb(v[2]), MixLimb(v[1])>>
    ELSE <<v[1] % 2, 0, 0, 0>>

\* SimpleGarbledGate::encrypt_with: secret + pout
encrypt_with(secret, pout) == Add(secret, BitIntoU64(pout))

\* SimpleGarbledGate::decrypt_with: (value - secret).into()
decrypt_with(secret, value) ==
    LET r == Sub(value, secret)
    IN  [ok |-> r.ok, v |-> BitFromU64(r.v)]

\* SimpleGarbledGate::concat: p1 + p2
concat(p1, p2) == Add(p1, p2)

\* The closure f of gen_pwds, with the identity in its place.
gen_pwds_f_stuck(a) == Ok(a)

\* The closure f of gen_pwds: a * 11 + 3
gen_pwds_f(a) ==
    LET m == Mul(a, 11)
    IN  IF m.ok THEN Add(m.v, U64(3)) ELSE Panic

\* Iterator::take(n).collect() on successors(Some(cur), f): each next() hands
\* out cur after computing f(cur) for the call after it, so n items cost n
\* applications of f beyond the first item.
RECURSIVE take_successors(_, _)
take_successors(cur, n) ==
    IF n = 0 THEN [ok |-> TRUE, items |-> <<>>]
    ELSE LET nx == gen_pwds_f(cur)
         IN  IF ~nx.ok THEN [ok |-> FALSE, items |-> <<>>]
             ELSE LET rest == take_successors(nx.v, n - 1)
                  IN  [ok |-> rest.ok,
                       items |-> IF rest.ok THEN <<cur>> \o rest.items ELSE <<>>]

\* gen_pwds(sec).take(n).collect(): start = f(&sec), then the successors of start.
gen_pwds_take(sec, n) ==
    LET start == gen_pwds_f(sec)
    IN  IF ~start.ok THEN [ok |-> FALSE, items |-> <<>>]
        ELSE take_successors(start.v, n)

\* The closure concat_hash of compute_garble_table.
concat_hash(pair) ==
    LET c == concat(pair[1], pair[2])
    IN  IF c.ok THEN Ok(hash(c.v)) ELSE Panic

NoTable == [input_hash_map |-> EmptyMap, input_enc_map |-> EmptyMap,
            hash_out_map |-> EmptyMap]

\* "Populate maps" with the output bit taken from the wrong place (the row's
\* first input instead of its output).
populate_maps_wrong_out(t, inp, encrypted_inputs, input_hash, out) ==
    [input_hash_map |-> MapInsert(t.input_hash_map, inp, input_hash),
     input_enc_map  |-> MapInsert(t.input_enc_map, inp, encrypted_inputs),
     hash_out_map   |-> MapInsert(t.hash_out_map, input_hash, inp[1])]

\* "Populate maps": the three inserts of one row.
populate_maps(t, inp, encrypted_inputs, input_hash, out) ==
    [input_hash_map |-> MapInsert(t.input_hash_map, inp, input_hash),
     input_enc_map  |-> MapInsert(t.input_enc_map, inp, encrypted_inputs),
     hash_out_map   |-> MapInsert(t.hash_out_map, input_hash, out)]

\* The loop of compute_garble_table from row i (from 0) on: an index of pwds
\* or of inp out of range, or an overflow, aborts.
RECURSIVE garble_rows(_, _, _, _)
garble_rows(pwds, table, i, t) ==
    IF i >= Len(table) THEN [ok |-> TRUE, t |-> t]
    ELSE IF i * 3 + 1 >= Len(pwds) \/ Len(table[i + 1][1]) < 2
         THEN [ok |-> FALSE, t |-> NoTable]
    ELSE LET inp == table[i + 1][1]
             out == table[i + 1][2]
             e0  == encrypt_with(pwds[i * 3 + 1], inp[1])
             e1  == encrypt_with(pwds[i * 3 + 2], inp[2])
             h   == concat_hash(<<e0.v, e1.v>>)
         IN  IF ~e0.ok \/ ~e1.ok \/ ~h.ok THEN [ok |-> FALSE, t |-> NoTable]
             ELSE garble_rows(pwds, table, i + 1,
                              populate_maps(t, inp, <<e0.v, e1.v>>, h.v, out))

\* Garbled::compute_garble_table of SimpleGarbledGate {master_secret, gate}
compute_garble_table(g) ==
    LET pwds == gen_pwds_take(g.master_secret, NumPwds)
    IN  IF ~pwds.ok \/ Len(pwds.items) # NumPwds THEN [ok |-> FALSE, t |-> NoTable]
        ELSE garble_rows(pwds.items, table_of(g.gate), 0, NoTable)

\* sort_by_key left out: the rows stay in the order the map iterated them.
sort_by_key_missing(inps) == inps

\* slice::sort_by_key(|i| i[1]), a stable sort on the second input bit.
RECURSIVE sort_by_key(_)
sort_by_key(inps) ==
    IF inps = <<>> THEN <<>>
    ELSE LET init == sort_by_key(SubSeq(inps, 1, Len(inps) - 1))
             x    == inps[Len(inps)]
             keep == {k \in 1..Len(init) : BitRank(init[k][2]) <= BitRank(x[2])}
             n    == IF keep = {} THEN 0 ELSE CHOOSE k \in keep : \A j \in keep : j <= k
         IN  SubSeq(init, 1, n) \o <<x>> \o SubSeq(init, n + 1, Len(init))

\* Iterator::filter(|&x| x[0] == inp) over the keys in iteration order.
RECURSIVE filter_first(_, _)
filter_first(keys, inp) ==
    IF keys = <<>> THEN <<>>
    ELSE IF Head(keys)[1] = inp
         THEN <<Head(keys)>> \o filter_first(Tail(keys), inp)
         ELSE filter_first(Tail(keys), inp)

\* get_partial_applied_table with hash_outputs cut down to the rows of inp.
get_partial_applied_table_filtered(t, inp, order) ==
    LET inps == sort_by_key(filter_first(order, inp))
        kept == {t.input_hash_map[x] : x \in {y \in DOMAIN t.input_hash_map : y[1] = inp}}
    IN  [inps_sorted  |-> [k \in 1..Len(inps) |-> t.input_enc_map[inps[k]]],
         hash_outputs |-> [h \in kept |-> t.hash_out_map[h]]]

\* GarbledTable::get_partial_applied_table, the keys of input_hash_map
\* iterated in the order `order`.
get_partial_applied_table(t, inp, order) ==
    LET inps == sort_by_key(filter_first(order, inp))
    IN  [inps_sorted  |-> [k \in 1..Len(inps) |-> t.input_enc_map[inps[k]]],
         hash_outputs |-> t.hash_out_map]

-----------------------------------------------------------------------------
(* impl EncryptionScheme for SimpleEncryptionScheme: a scheme is its secret *)

\* encrypt with one too many added.
encrypt_off_by_one(scheme, v) ==
    LET r == Add(scheme, v)
    IN  IF r.ok THEN Add(r.v, U64(1)) ELSE Panic

\* SimpleEncryptionScheme::encrypt: self.0 + v
encrypt(scheme, v) == Add(scheme, v)

\* decrypt with the operands exchanged.
decrypt_swapped(scheme, e) == Sub(scheme, e)

\* SimpleEncryptionScheme::decrypt: e - self.0
decrypt(scheme, e) == Sub(e, scheme)

\* A pair of results as one result.
PairResult(r0, r1) ==
    [ok |-> r0.ok /\ r1.ok, v |-> IF r0.ok /\ r1.ok THEN <<r0.v, r1.v>> ELSE <<Zero64, Zero64>>]

encrypt_pair(scheme, p) == PairResult(encrypt(scheme, p[1]), encrypt(scheme, p[2]))
decrypt_pair(scheme, p) == PairResult(decrypt(scheme, p[1]), decrypt(scheme, p[2]))

-----------------------------------------------------------------------------
(* src/main.rs: Alice garbles a gate, reveals the rows of her bit, and Bob   *)
(* fetches the row of his bit by the commutative double-encryption exchange. *)
(* main fixes the secrets 42 and 24, ANDGATE and the bits; the model draws   *)
(* them from sets.                                                           *)

SmallSecrets == {U64(n) : n \in 0..MaxSecret}

\* alice_secret and bob_secret of main.
DemoSecrets == {U64(42), U64(24)}

\* Secrets near 2^64, and one whose twelve derived secrets fit in 64 bits
\* while the thirteenth application of f does not.
LargeSecrets == {WrappingSub(Max64, U64(n)) : n \in 0..(MaxSecret - 1)}

EdgeSecrets == {U64(1000000)}

BoundedSecrets == SmallSecrets \cup DemoSecrets

MasterSecrets == BoundedSecrets \cup EdgeSecrets \cup LargeSecrets

SchemeSecrets == BoundedSecrets \cup {Max64}

\* Every Gate<2> with a total table: from_table of one row per input.
TotalGates ==
    {from_table(<<Row("One", "One", o[4]), Row("Zero", "One", o[2]),
                  Row("One", "Zero", o[3]), Row("Zero", "Zero", o[1])>>) :
        o \in [1..4 -> Bit]}

NoPair == <<Zero64, Zero64>>
NoPartial == [inps_sorted |-> <<>>, hash_outputs |-> EmptyMap]
NoLookup == [hash |-> Zero64, some |-> FALSE, result |-> "Zero"]

\* The parts of the model a specification does not exercise stay as they are.
IdleEnc ==
    /\ enc_a = Zero64 /\ enc_b = Zero64 /\ value0 = Zero64
    /\ cur_value = Ok(Zero64) /\ applied = <<>>

IdleGate ==
    /\ gate_name = "none" /\ gate_rows = <<>> /\ gate_obj = <<>>
    /\ eval_input = <<>> /\ eval_result = [ok |-> TRUE, v |-> "Zero"]

IdleCircuit ==
    /\ circ_pc = "new" /\ gates = <<>> /\ input = <<>> /\ circuit_trees = <<>>
    /\ gate_evals = <<>> /\ output = <<>> /\ eval_calls = 0

IdleBits ==
    /\ ba_arity = 0 /\ ba_value0 = 0 /\ ba_bits = <<>> /\ ba_usize = 0 /\ ba_calls = <<>>

IdleTree ==
    /\ tree_pc = "open" /\ tree_inner = <<>> /\ tree_pushes = <<>>
    /\ tree_rejected = <<>> /\ tree_got = <<>>

IdleKeys ==
    /\ kg_pc = "new"
    /\ kg_garbled = [master_secret |-> Zero64, gate |-> ANDGATE]
    /\ kg_pwds = [ok |-> TRUE, items |-> <<>>]
    /\ kg_table = NoTable

IdleWire ==
    /\ wire_impl = "SimpleGarbledGate" /\ wire_secret = Zero64 /\ wire_bit = "Zero"
    /\ wire_enc = Ok(Zero64) /\ wire_dec = [ok |-> TRUE, v |-> "Zero"] /\ wire_pc = "new"

IdleSteps ==
    /\ st_pc = "new" /\ st_stack = <<>> /\ st_evals = <<>> /\ st_tree = 0
    /\ st_out = <<>> /\ st_ret = [some |-> FALSE, v |-> "Zero"]

IdleLib == IdleBits /\ IdleTree /\ IdleKeys /\ IdleWire /\ IdleSteps

InitOT ==
    /\ pc = "start"
    /\ garbled_nand = [master_secret |-> Zero64, gate |-> ANDGATE]
    /\ garbled_and_table = NoTable
    /\ alice_bit = "Zero"
    /\ partial_applied_table = NoPartial
    /\ alice_enc = Zero64
    /\ bob_enc = Zero64
    /\ bob_received_inputs = <<>>
    /\ bob_bit = "Zero"
    /\ bob_encrypted = NoPair
    /\ alice_decrypted = NoPair
    /\ bob_decrypted = NoPair
    /\ lookup = NoLookup

IdleOT == InitOT

Abort == pc' = "aborted"

\* main.rs 33-34: SimpleGarbledGate::new and compute_garble_table.
Garble ==
    /\ pc = "start"
    /\ \E m \in MasterSecrets, g \in TotalGates :
          LET gg == [master_secret |-> m, gate |-> g]
              r  == compute_garble_table(gg)
          IN  /\ garbled_nand' = gg
              /\ IF r.ok
                 THEN garbled_and_table' = r.t /\ pc' = "garbled"
                 ELSE garbled_and_table' = NoTable /\ Abort
    /\ UNCHANGED <<overflow_checks, hasher, libVars, encVars, gateVars, circVars, alice_bit, partial_applied_table, alice_enc, bob_enc,
                   bob_received_inputs, bob_bit, bob_encrypted, alice_decrypted,
                   bob_decrypted, lookup>>

\* main.rs 39-47: Alice's bit and get_partial_applied_table.
PartialApply ==
    /\ pc = "garbled"
    /\ \E a \in Bit, order \in IterationOrders(DOMAIN garbled_and_table.input_hash_map) :
          /\ alice_bit' = a
          /\ partial_applied_table' = get_partial_applied_table(garbled_and_table, a, order)
    /\ pc' = "partial"
    /\ UNCHANGED <<overflow_checks, hasher, libVars, encVars, gateVars, circVars, garbled_nand, garbled_and_table, alice_enc, bob_enc,
                   bob_received_inputs, bob_bit, bob_encrypted, alice_decrypted,
                   bob_decrypted, lookup>>

\* The rows of inps_sorted, each half encrypted by Alice (main.rs 66-70).
RECURSIVE encrypt_rows(_, _)
encrypt_rows(scheme, rows) ==
    IF rows = <<>> THEN [ok |-> TRUE, v |-> <<>>]
    ELSE LET h == encrypt_pair(scheme, Head(rows))
             t == encrypt_rows(scheme, Tail(rows))
         IN  [ok |-> h.ok /\ t.ok, v |-> IF h.ok /\ t.ok THEN <<h.v>> \o t.v ELSE <<>>]

\* main.rs 63-70, step 1: the two schemes, and Alice encrypts every row.
AliceEncrypts ==
    /\ pc = "partial"
    /\ \E sa \in SchemeSecrets, sb \in SchemeSecrets :
          LET r == encrypt_rows(sa, partial_applied_table.inps_sorted)
          IN  /\ alice_enc' = sa
              /\ bob_enc' = sb
              /\ IF r.ok
                 THEN bob_received_inputs' = r.v /\ pc' = "sent1"
                 ELSE bob_received_inputs' = <<>> /\ Abort
    /\ UNCHANGED <<overflow_checks, hasher, libVars, encVars, gateVars, circVars, garbled_nand, garbled_and_table, alice_bit,
                   partial_applied_table, bob_bit, bob_encrypted, alice_decrypted,
                   bob_decrypted, lookup>>

\* Bob's message with the first half of the row encrypted twice over.
step2_message_first_half_twice(received, bit, scheme) ==
    LET index == IF BitIntoU64(bit) = Zero64 THEN 0 ELSE 1
    IN  IF index >= Len(received) THEN [ok |-> FALSE, v |-> NoPair]
        ELSE PairResult(encrypt(scheme, received[index + 1][1]),
                        encrypt(scheme, received[index + 1][1]))

\* main.rs 84-92, step 2: index = bob_bit.into(); Bob encrypts the row at index.
step2_message(received, bit, scheme) ==
    LET index == IF BitIntoU64(bit) = Zero64 THEN 0 ELSE 1
    IN  IF index >= Len(received) THEN [ok |-> FALSE, v |-> NoPair]
        ELSE encrypt_pair(scheme, received[index + 1])

BobEncrypts ==
    /\ pc = "sent1"
    /\ \E b \in Bit :
          LET r == step2_message(bob_received_inputs, b, bob_enc)
          IN  /\ bob_bit' = b
              /\ IF r.ok
                 THEN bob_encrypted' = r.v /\ pc' = "sent2"
                 ELSE bob_encrypted' = NoPair /\ Abort
    /\ UNCHANGED <<overflow_checks, hasher, libVars, encVars, gateVars, circVars, garbled_nand, garbled_and_table, alice_bit,
                   partial_applied_table, alice_enc, bob_enc, bob_received_inputs,
                   alice_decrypted, bob_decrypted, lookup>>

\* main.rs 100-103, step 3: Alice removes her layer.
AliceDecrypts ==
    /\ pc = "sent2"
    /\ LET r == decrypt_pair(alice_enc, bob_encrypted)
       IN  IF r.ok
           THEN alice_decrypted' = r.v /\ pc' = "sent3"
           ELSE alice_decrypted' = NoPair /\ Abort
    /\ UNCHANGED <<overflow_checks, hasher, libVars, encVars, gateVars, circVars, garbled_nand, garbled_and_table, alice_bit,
                   partial_applied_table, alice_enc, bob_enc, bob_received_inputs,
                   bob_bit, bob_encrypted, bob_decrypted, lookup>>

\* main.rs 111-114, step 4: Bob removes his layer.
BobDecrypts ==
    /\ pc = "sent3"
    /\ LET r == decrypt_pair(bob_enc, alice_decrypted)
       IN  IF r.ok
           THEN bob_decrypted' = r.v /\ pc' = "recovered"
           ELSE bob_decrypted' = NoPair /\ Abort
    /\ UNCHANGED <<overflow_checks, hasher, libVars, encVars, gateVars, circVars, garbled_nand, garbled_and_table, alice_bit,
                   partial_applied_table, alice_enc, bob_enc, bob_received_inputs,
                   bob_bit, bob_encrypted, alice_decrypted, lookup>>

\* main.rs 119-125: concat, hash and garbled_to_bob.get(&hash).
bob_lookup(garbled_to_bob, pair) ==
    LET h == concat_hash(pair)
    IN  IF ~h.ok THEN [ok |-> FALSE, v |-> NoLookup]
        ELSE [ok |-> TRUE,
              v  |-> [hash   |-> h.v,
                      some   |-> h.v \in DOMAIN garbled_to_bob,
                      result |-> IF h.v \in DOMAIN garbled_to_bob
                                 THEN garbled_to_bob[h.v] ELSE "Zero"]]

BobLooksUp ==
    /\ pc = "recovered"
    /\ LET r == bob_lookup(partial_applied_table.hash_outputs, bob_decrypted)
       IN  IF r.ok
           THEN lookup' = r.v /\ pc' = "done"
           ELSE lookup' = NoLookup /\ Abort
    /\ UNCHANGED <<overflow_checks, hasher, libVars, encVars, gateVars, circVars, garbled_nand, garbled_and_table, alice_bit,
                   partial_applied_table, alice_enc, bob_enc, bob_received_inputs,
                   bob_bit, bob_encrypted, alice_decrypted, bob_decrypted>>

Init ==
    /\ overflow_checks \in BOOLEAN
    /\ hasher = "DefaultHasher"
    /\ IdleLib
    /\ InitOT
    /\ IdleEnc
    /\ IdleGate
    /\ IdleCircuit

Next ==
    \/ Garble
    \/ PartialApply
    \/ AliceEncrypts
    \/ BobEncrypts
    \/ AliceDecrypts
    \/ BobDecrypts
    \/ BobLooksUp

Spec == Init /\ [][Next]_vars

-----------------------------------------------------------------------------
(* Properties of the garbled table and of the exchange *)

\* compute_garble_table has returned a table.
TableReturned == pc \notin {"start", "aborted"} \/ garbled_and_table # NoTable

PartialReturned == partial_applied_table # NoPartial

\* The position of Bob's row in inps_sorted (from 1), and of the other row.
BobIndex == IF bob_bit = "Zero" THEN 1 ELSE 2
OtherIndex == 3 - BobIndex
OtherBit == IF bob_bit = "Zero" THEN "One" ELSE "Zero"

\* The gate and the three secrets are in the bounded range of C1.
OTInRange ==
    /\ garbled_nand.gate \in StandardGates
    /\ garbled_nand.master_secret \in BoundedSecrets
    /\ alice_enc \in BoundedSecrets
    /\ bob_enc \in BoundedSecrets

\* C1: for a standard gate and secrets in the bounded range the walkthrough
\* never aborts, and when it is done the pair Bob recovered is
\* inps_sorted[i], the hash of its concatenation is a key of hash_outputs and
\* the bit under it is gate.evaluate([a, i]).
C1_ObliviousTransferEndToEnd ==
    OTInRange =>
        /\ pc # "aborted"
        /\ pc = "done" =>
              /\ bob_decrypted = partial_applied_table.inps_sorted[BobIndex]
              /\ lookup.some
              /\ lookup.hash \in DOMAIN partial_applied_table.hash_outputs
              /\ evaluate(garbled_nand.gate, <<alice_bit, bob_bit>>).ok
              /\ lookup.result = evaluate(garbled_nand.gate, <<alice_bit, bob_bit>>).v

\* The run of main.rs itself: secrets 42 and 24, ANDGATE, Alice's bit Zero,
\* Bob's bit One, and the result Some(Zero).
C1_Witness ==
    /\ pc = "done"
    /\ garbled_nand = [master_secret |-> U64(42), gate |-> ANDGATE]
    /\ alice_enc = U64(42) /\ bob_enc = U64(24)
    /\ alice_bit = "Zero" /\ bob_bit = "One"
    /\ lookup.some /\ lookup.result = "Zero"

\* C2: in a table compute_garble_table returned, for every input pair p of
\* the gate's table, hash(concat(input_enc_map[p])) is a key of hash_out_map,
\* the bit under it is gate.evaluate(p), and the hash is input_hash_map[p].
C2_GarbledTableRoundTrip ==
    TableReturned =>
        \A k \in 1..Len(table_of(garbled_nand.gate)) :
            LET p == table_of(garbled_nand.gate)[k][1]
                t == garbled_and_table
            IN  /\ p \in DOMAIN t.input_enc_map
                /\ p \in DOMAIN t.input_hash_map
                /\ LET h == concat_hash(t.input_enc_map[p])
                   IN  /\ h.ok
                       /\ h.v \in DOMAIN t.hash_out_map
                       /\ evaluate(garbled_nand.gate, p).ok
                       /\ t.hash_out_map[h.v] = evaluate(garbled_nand.gate, p).v
                       /\ h.v = t.input_hash_map[p]

\* A returned table of XORGATE whose rows hold both output bits.
C2_Witness ==
    /\ pc = "garbled"
    /\ garbled_nand.gate = XORGATE
    /\ garbled_and_table.hash_out_map[garbled_and_table.input_hash_map[<<"One", "Zero">>]] = "One"
    /\ garbled_and_table.hash_out_map[garbled_and_table.input_hash_map[<<"One", "One">>]] = "Zero"

\* C3: a returned table has one entry per input combination in each of its
\* three maps, four entries each, and the concatenated encrypted inputs of
\* two distinct input pairs differ.
C3_GarbledTableInvariant ==
    TableReturned =>
        LET t == garbled_and_table
        IN  /\ DOMAIN t.input_hash_map = Inputs2
            /\ DOMAIN t.input_enc_map = Inputs2
            /\ Cardinality(DOMAIN t.hash_out_map) = 4
            /\ \A p, q \in Inputs2 :
                  p # q => WrappingAdd(t.input_enc_map[p][1], t.input_enc_map[p][2])
                           # WrappingAdd(t.input_enc_map[q][1], t.input_enc_map[q][2])

\* A table returned by a build that wraps, for the master secret 2^64 - 1:
\* the derived secrets have wrapped and the four keys still differ.
C3_Witness ==
    /\ pc = "garbled"
    /\ ~overflow_checks
    /\ garbled_nand.master_secret = Max64
    /\ Cardinality(DOMAIN garbled_and_table.hash_out_map) = 4

\* C4: inps_sorted has one entry per table row whose first input is the
\* revealed bit (two), entry k is input_enc_map[[b, k]], and every iteration
\* order of the map gives this same partial table.
C4_PartialTable ==
    PartialReturned =>
        LET t  == garbled_and_table
            pt == partial_applied_table
        IN  /\ Len(pt.inps_sorted)
                 = Cardinality({k \in 1..Len(table_of(garbled_nand.gate)) :
                                   table_of(garbled_nand.gate)[k][1][1] = alice_bit})
            /\ Len(pt.inps_sorted) = 2
            /\ pt.inps_sorted[1] = t.input_enc_map[<<alice_bit, "Zero">>]
            /\ pt.inps_sorted[2] = t.input_enc_map[<<alice_bit, "One">>]
            /\ pc = "partial" =>
                  \A order \in IterationOrders(DOMAIN t.input_hash_map) :
                      get_partial_applied_table(t, alice_bit, order) = pt

\* The partial table of the bit One: the rows [One, Zero] and [One, One].
C4_Witness ==
    /\ pc = "partial"
    /\ alice_bit = "One"
    /\ Len(partial_applied_table.inps_sorted) = 2
    /\ partial_applied_table.inps_sorted[1] # partial_applied_table.inps_sorted[2]

\* C19: the hash_outputs of the table get_partial_applied_table returns is
\* the whole hash_out_map of the GarbledTable, the entries of the rows whose
\* first input is not the revealed bit included, and the GarbledTable is
\* on return from the call what compute_garble_table returned.
C19_HashOutputsPassedThrough ==
    PartialReturned =>
        /\ partial_applied_table.hash_outputs = garbled_and_table.hash_out_map
        /\ \A inp \in DOMAIN garbled_and_table.input_hash_map :
              /\ garbled_and_table.input_hash_map[inp] \in
                     DOMAIN partial_applied_table.hash_outputs
              /\ partial_applied_table.hash_outputs[garbled_and_table.input_hash_map[inp]]
                     = evaluate(garbled_nand.gate, inp).v
        /\ pc = "partial" => garbled_and_table = compute_garble_table(garbled_nand).t

\* The table of XOR has been partially applied to Alice's bit Zero, and
\* hash_outputs has the four entries.
C19_Witness ==
    /\ pc = "partial"
    /\ alice_bit = "Zero"
    /\ garbled_nand.gate = XORGATE
    /\ Cardinality(DOMAIN partial_applied_table.hash_outputs) = 4

\* What the second party computes from its view (the two rows received in
\* step 1, the value received in step 3, its own secret and bit) with the
\* scheme's decrypt: its own row, then the first party's secret as the
\* received row decrypted under the recovered key, then the other row.
BobViewOwnRow == decrypt_pair(bob_enc, alice_decrypted)

BobViewAliceSecret ==
    decrypt(BobViewOwnRow.v[1], bob_received_inputs[BobIndex][1])

BobViewOtherRow ==
    decrypt_pair(BobViewAliceSecret.v, bob_received_inputs[OtherIndex])

ExchangeCompleted == pc \in {"recovered", "done"}

OtherBitSecret == WrappingSub(bob_encrypted[1], bob_received_inputs[OtherIndex][1])

SameMessageWithOtherBit ==
    LET r == step2_message(bob_received_inputs, OtherBit, OtherBitSecret)
    IN  r.ok /\ r.v = bob_encrypted

Step2Sent == pc \in {"sent2", "sent3", "recovered", "done"}

-----------------------------------------------------------------------------
(* src/encryption.rs: two schemes, of secrets a and b, applied in turn to a *)
(* value.  A call that aborts ends the run.                                 *)

EncValues == SmallSecrets \cup {WrappingSub(Max64, U64(1)), Max64}

InitEnc ==
    /\ enc_a \in SchemeSecrets
    /\ enc_b \in SchemeSecrets
    /\ value0 \in EncValues
    /\ cur_value = Ok(value0)
    /\ applied = <<>>

CanApply == cur_value.ok /\ Len(applied) < MaxApplied

\* A.encrypt(value)
EncryptA ==
    /\ CanApply
    /\ cur_value' = encrypt(enc_a, cur_value.v)
    /\ applied' = Append(applied, "A.encrypt")
    /\ UNCHANGED <<overflow_checks, hasher, libVars, otVars, gateVars, circVars, enc_a, enc_b, value0>>

\* A.decrypt(value)
DecryptA ==
    /\ CanApply
    /\ cur_value' = decrypt(enc_a, cur_value.v)
    /\ applied' = Append(applied, "A.decrypt")
    /\ UNCHANGED <<overflow_checks, hasher, libVars, otVars, gateVars, circVars, enc_a, enc_b, value0>>

\* B.encrypt(value)
EncryptB ==
    /\ CanApply
    /\ cur_value' = encrypt(enc_b, cur_value.v)
    /\ applied' = Append(applied, "B.encrypt")
    /\ UNCHANGED <<overflow_checks, hasher, libVars, otVars, gateVars, circVars, enc_a, enc_b, value0>>

\* B.decrypt(value)
DecryptB ==
    /\ CanApply
    /\ cur_value' = decrypt(enc_b, cur_value.v)
    /\ applied' = Append(applied, "B.decrypt")
    /\ UNCHANGED <<overflow_checks, hasher, libVars, otVars, gateVars, circVars, enc_a, enc_b, value0>>

InitEncSpec ==
    /\ overflow_checks \in BOOLEAN
    /\ hasher = "DefaultHasher"
    /\ IdleLib
    /\ IdleOT
    /\ InitEnc
    /\ IdleGate
    /\ IdleCircuit

NextEnc ==
    \/ EncryptA
    \/ DecryptA
    \/ EncryptB
    \/ DecryptB

SpecEnc == InitEncSpec /\ [][NextEnc]_vars

\* The calls in `calls` have been made, or begun: applied is a prefix of them.
IsPrefix(a, calls) == Len(a) <= Len(calls) /\ a = SubSeq(calls, 1, Len(a))

\* C7: for every secret and every value, decrypt(encrypt(v)) = v and
\* encrypt(decrypt(v)) = v, and none of the calls aborts on overflow or
\* underflow.
C7_EncryptDecryptInverse ==
    /\ (applied # <<>> /\ ( \/ IsPrefix(applied, <<"A.encrypt", "A.decrypt">>)
                            \/ IsPrefix(applied, <<"A.decrypt", "A.encrypt">>) ))
          => cur_value.ok
    /\ applied = <<"A.encrypt", "A.decrypt">> => cur_value = Ok(value0)
    /\ applied = <<"A.decrypt", "A.encrypt">> => cur_value = Ok(value0)

\* C8: for every two secrets and every value x, with no call aborting,
\* A.decrypt(B.encrypt(A.encrypt(x))) = B.encrypt(x),
\* B.decrypt(A.decrypt(B.encrypt(A.encrypt(x)))) = x, and
\* B.encrypt(A.encrypt(x)) = A.encrypt(B.encrypt(x)).
C8_LayersCommute ==
    /\ (applied # <<>>
          /\ IsPrefix(applied, <<"A.encrypt", "B.encrypt", "A.decrypt", "B.decrypt">>))
          => cur_value.ok
    /\ applied = <<"A.encrypt", "B.encrypt", "A.decrypt">>
          => cur_value = Ok(WrappingAdd(enc_b, value0)) /\ encrypt(enc_b, value0).ok
    /\ applied = <<"A.encrypt", "B.encrypt", "A.decrypt", "B.decrypt">>
          => cur_value = Ok(value0)
    /\ applied = <<"A.encrypt", "B.encrypt">>
          => /\ encrypt(enc_b, value0).ok
             /\ cur_value = encrypt(enc_a, encrypt(enc_b, value0).v)

-----------------------------------------------------------------------------
(* src/gate.rs: a gate is one of the four constants or is built by          *)
(* from_table from four rows, and evaluate is called on it.                 *)

GateNames == {"ANDGATE", "ORGATE", "XORGATE", "NANDGATE"}

GateConst(name) ==
    CASE name = "ANDGATE"  -> ANDGATE
      [] name = "ORGATE"   -> ORGATE
      [] name = "XORGATE"  -> XORGATE
      [] name = "NANDGATE" -> NANDGATE

\* The rows <<input, output>> of arity 2: the rows of ANDGATE first, then the
\* rows with the other output.
RowPool ==
    << Row("Zero", "Zero", "Zero"), Row("Zero", "One", "Zero"),
       Row("One", "Zero", "Zero"),  Row("One", "One", "One"),
       Row("Zero", "Zero", "One"),  Row("One", "One", "Zero"),
       Row("Zero", "One", "One"),   Row("One", "Zero", "One") >>

PoolSize == IF MaxRowPool < Len(RowPool) THEN MaxRowPool ELSE Len(RowPool)

RowLists == [1..4 -> {RowPool[k] : k \in 1..PoolSize}]

InitGate ==
    /\ gate_name = "none"
    /\ gate_rows = <<>>
    /\ gate_obj = <<>>
    /\ eval_input = <<>>
    /\ eval_result = [ok |-> TRUE, v |-> "Zero"]

\* One of the constants ANDGATE, ORGATE, XORGATE, NANDGATE.
UseConstant ==
    /\ gate_name = "none"
    /\ \E n \in GateNames :
          /\ gate_name' = n
          /\ gate_obj' = GateConst(n)
    /\ UNCHANGED <<overflow_checks, hasher, libVars, otVars, encVars, circVars, gate_rows, eval_input,
                   eval_result>>

\* Gate::from_table(rows)
FromTable ==
    /\ gate_name = "none"
    /\ \E rows \in RowLists :
          /\ gate_rows' = rows
          /\ gate_obj' = from_table(rows)
    /\ gate_name' = "from_table"
    /\ UNCHANGED <<overflow_checks, hasher, libVars, otVars, encVars, circVars, eval_input, eval_result>>

\* gate.evaluate(&input)
Evaluate ==
    /\ gate_name # "none"
    /\ \E inp \in Inputs2 :
          /\ eval_input' = inp
          /\ eval_result' = evaluate(gate_obj, inp)
    /\ UNCHANGED <<overflow_checks, hasher, libVars, otVars, encVars, circVars, gate_name, gate_rows,
                   gate_obj>>

InitGateSpec ==
    /\ overflow_checks \in BOOLEAN
    /\ hasher = "DefaultHasher"
    /\ IdleLib
    /\ IdleOT
    /\ IdleEnc
    /\ InitGate
    /\ IdleCircuit

NextGate ==
    \/ UseConstant
    \/ FromTable
    \/ Evaluate

SpecGate == InitGateSpec /\ [][NextGate]_vars

\* The textbook functions, on truth values.
Textbook(name, x, y) ==
    CASE name = "ANDGATE"  -> x /\ y
      [] name = "ORGATE"   -> x \/ y
      [] name = "XORGATE"  -> x # y
      [] name = "NANDGATE" -> ~(x /\ y)

BitOfBool(t) == IF t THEN "One" ELSE "Zero"

\* C10: on each of the constants ANDGATE, ORGATE, XORGATE and NANDGATE,
\* evaluate([x, y]) returns the textbook function of x and y.
C10_StandardGatesTextbook ==
    (gate_name \in GateNames /\ eval_input # <<>>) =>
        /\ eval_result.ok
        /\ eval_result.v = BitOfBool(Textbook(gate_name, eval_input[1] = "One",
                                              eval_input[2] = "One"))

\* NAND(0, 0) = 1 has been evaluated.
C10_Witness ==
    /\ gate_name = "NANDGATE"
    /\ eval_input = <<"Zero", "Zero">>
    /\ eval_result = [ok |-> TRUE, v |-> "One"]

\* The rows cover every input of arity 2 exactly once.
CompleteRows(rows) ==
    \A inp \in Inputs2 : Cardinality({k \in 1..Len(rows) : rows[k][1] = inp}) = 1

\* C11: from_table does not return a Gate for rows in which an input is
\* duplicated (and another missing): every Gate it returns has one row per
\* input, and evaluate returns a Bit on it for every input.
C11_FromTableRejectsMalformed ==
    gate_name = "from_table" =>
        /\ CompleteRows(gate_rows)
        /\ \A inp \in Inputs2 : evaluate(gate_obj, inp).ok
        /\ eval_input # <<>> => eval_result.ok

\* The rows in the order p.
PermuteRows(rows, p) == [k \in 1..Len(rows) |-> rows[p[k]]]

\* C12: table() of a gate built by from_table from a complete row set in any
\* order, and of each of the four constants, has the input BitArray::from(k)
\* in row k, and from_table gives the same gate for every order of the rows.
C12_TableCanonicalOrder ==
    (gate_name \in GateNames \/ (gate_name = "from_table" /\ CompleteRows(gate_rows))) =>
        /\ \A k \in 0..(Len(table_of(gate_obj)) - 1) :
              table_of(gate_obj)[k + 1][1] = from_usize(k, 2)
        /\ gate_name = "from_table" =>
              \A p \in Permutations(1..Len(gate_rows)) :
                  from_table(PermuteRows(gate_rows, p)) = gate_obj

\* from_table has been given the rows of AND in the order 11, 01, 10, 00.
C12_Witness ==
    /\ gate_name = "from_table"
    /\ gate_rows = <<Row("One", "One", "One"), Row("Zero", "One", "Zero"),
                     Row("One", "Zero", "Zero"), Row("Zero", "Zero", "Zero")>>
    /\ gate_obj = ANDGATE

-----------------------------------------------------------------------------
(* src/circuit.rs: CircuitTree, a binary tree packed in a Vec<u64> *)

\* x & y and x | y on the n low bits of two limbs.
RECURSIVE AndLimb(_, _, _)
AndLimb(x, y, n) ==
    IF n = 0 THEN 0
    ELSE (x % 2) * (y % 2) + 2 * AndLimb(x \div 2, y \div 2, n - 1)

And64(a, b) == <<AndLimb(a[1], b[1], 16), AndLimb(a[2], b[2], 16),
                 AndLimb(a[3], b[3], 16), AndLimb(a[4], b[4], 16)>>

\* x | y = x + y - (x & y)
Or64(a, b) == <<a[1] + b[1] - AndLimb(a[1], b[1], 16), a[2] + b[2] - AndLimb(a[2], b[2], 16),
                a[3] + b[3] - AndLimb(a[3], b[3], 16), a[4] + b[4] - AndLimb(a[4], b[4], 16)>>

Not64(a) == <<Base - 1 - a[1], Base - 1 - a[2], Base - 1 - a[3], Base - 1 - a[4]>>

\* 1 << 63, !MSB_MASK, and the 1 << 62 of the asserts.
MSB_MASK == <<0, 0, 0, 2^15>>
IDX_MASK == Not64(MSB_MASK)
IdxLimit == <<0, 0, 0, 2^14>>

\* vec[u as usize] is in range; the lengths of the model are below 2^16.
InRange(u, len) == u[2] = 0 /\ u[3] = 0 /\ u[4] = 0 /\ u[1] < len
Index(u) == u[1]

\* CircuitTree::new
new_tree == <<>>

\* CircuitTree::push_gate_idx
push_gate_idx(inner, gidx) ==
    IF Less64(gidx, IdxLimit)
    THEN [ok |-> TRUE, inner |-> Append(inner, gidx)]
    ELSE [ok |-> FALSE, inner |-> inner]

\* push_input_idx with the bound of its comment, 2^63, in the assert.
push_input_idx_below_msb(inner, iidx) ==
    IF Less64(iidx, MSB_MASK)
    THEN [ok |-> TRUE, inner |-> Append(inner, Or64(MSB_MASK, iidx))]
    ELSE [ok |-> FALSE, inner |-> inner]

\* CircuitTree::push_input_idx
push_input_idx(inner, iidx) ==
    IF Less64(iidx, IdxLimit)
    THEN [ok |-> TRUE, inner |-> Append(inner, Or64(MSB_MASK, iidx))]
    ELSE [ok |-> FALSE, inner |-> inner]

\* impl From<u64> for NodeType
NodeTypeFrom(v) == IF v = Zero64 THEN "Gate" ELSE "Input"

\* get returning the stored value as the index, without the mask.
get_unmasked(inner, idx) ==
    IF idx >= Len(inner) THEN [ok |-> FALSE, kind |-> "Gate", idx |-> Zero64]
    ELSE LET val == inner[idx + 1]
         IN  [ok |-> TRUE, kind |-> NodeTypeFrom(And64(val, MSB_MASK)), idx |-> val]

\* CircuitTree::get, idx a position from 0; out of bounds aborts.
get(inner, idx) ==
    IF idx >= Len(inner) THEN [ok |-> FALSE, kind |-> "Gate", idx |-> Zero64]
    ELSE LET val == inner[idx + 1]
         IN  [ok |-> TRUE, kind |-> NodeTypeFrom(And64(val, MSB_MASK)),
              idx |-> And64(val, IDX_MASK)]

-----------------------------------------------------------------------------
(* src/circuit.rs: Circuit *)

None == [some |-> FALSE, v |-> "Zero"]
Some(b) == [some |-> TRUE, v |-> b]

EvalPanic(evals) == [ok |-> FALSE, val |-> "Zero", evals |-> evals]

\* The memo hit returning the slot of the gate itself.
memo_hit_own_slot(evals, gidx) == [ok |-> TRUE, val |-> evals[gidx + 1].v, evals |-> evals]

\* The memo hit of eval_tree: return evals[0].unwrap()
memo_hit(evals, gidx) ==
    IF Len(evals) = 0 \/ ~evals[1].some THEN EvalPanic(evals)
    ELSE [ok |-> TRUE, val |-> evals[1].v, evals |-> evals]

\* Circuit::eval_tree: the Bit returned and the memo after the call, or the abort.
RECURSIVE eval_tree(_, _, _)
eval_tree(node_idx, tree, evals) ==
    LET n == get(tree, node_idx)
    IN  IF ~n.ok THEN EvalPanic(evals)
        ELSE IF n.kind = "Input"
        THEN IF InRange(n.idx, Len(input))
             THEN [ok |-> TRUE, val |-> input[Index(n.idx) + 1], evals |-> evals]
             ELSE EvalPanic(evals)
        ELSE IF ~InRange(n.idx, Len(evals)) THEN EvalPanic(evals)
        ELSE IF evals[Index(n.idx) + 1].some THEN memo_hit(evals, Index(n.idx))
        ELSE IF ~InRange(n.idx, Len(gates)) THEN EvalPanic(evals)
        ELSE LET gidx == Index(n.idx)
                 l    == eval_tree(node_idx * 2 + 1, tree, evals)
             IN  IF ~l.ok THEN EvalPanic(l.evals)
                 ELSE LET r == eval_tree(node_idx * 2 + 2, tree, l.evals)
                      IN  IF ~r.ok THEN EvalPanic(r.evals)
                          ELSE LET res == evaluate(gates[gidx + 1], <<l.val, r.val>>)
                               IN  IF ~res.ok THEN EvalPanic(r.evals)
                                   ELSE [ok |-> TRUE, val |-> res.v,
                                         evals |-> [r.evals EXCEPT ![gidx + 1] = Some(res.v)]]

\* The map over circuit_trees of eval: the root of each tree in turn, with
\* the one memo.
RECURSIVE eval_trees(_, _)
eval_trees(trees, evals) ==
    IF trees = <<>> THEN [ok |-> TRUE, out |-> <<>>, evals |-> evals]
    ELSE LET h == eval_tree(0, Head(trees), evals)
         IN  IF ~h.ok THEN [ok |-> FALSE, out |-> <<>>, evals |-> h.evals]
             ELSE LET t == eval_trees(Tail(trees), h.evals)
                  IN  [ok |-> t.ok, out |-> IF t.ok THEN <<h.val>> \o t.out ELSE <<>>,
                       evals |-> t.evals]

\* A tree as the pushes of the test: a sequence of nodes <<kind, index>>.
GateNode(g) == <<"Gate", g>>
InputNode(i) == <<"Input", i>>

RECURSIVE build_tree(_)
build_tree(nodes) ==
    IF nodes = <<>> THEN new_tree
    ELSE LET init == build_tree(SubSeq(nodes, 1, Len(nodes) - 1))
             n    == nodes[Len(nodes)]
         IN  IF n[1] = "Gate" THEN push_gate_idx(init, U64(n[2])).inner
             ELSE push_input_idx(init, U64(n[2])).inner

GateIdxs == 0..MaxGateIdx
InputIdxs == 0..MaxInputIdx

\* The tree of a circuit of one tree: a single input, a gate without
\* children, a gate over two inputs, or a gate over two gates over the inputs
\* 0, 1, 2, 3 (modulo the number of inputs).
LeafTrees == {<<InputNode(i)>> : i \in InputIdxs}
StubTrees == {<<GateNode(g)>> : g \in GateIdxs}
SmallTrees ==
    {<<GateNode(g), InputNode(i), InputNode(j)>> : g \in GateIdxs, i \in InputIdxs, j \in InputIdxs}
DeepTrees ==
    {<<GateNode(g), GateNode(h), GateNode(k),
       InputNode(0), InputNode(1 % (MaxInputIdx + 1)),
       InputNode(2 % (MaxInputIdx + 1)), InputNode(3 % (MaxInputIdx + 1))>> :
        g \in GateIdxs, h \in GateIdxs, k \in GateIdxs}

\* The trees of a circuit of several trees: the input 0, and a gate over the
\* first and the last input.
SharedTrees ==
    {<<InputNode(0)>>}
    \cup {<<GateNode(g), InputNode(0), InputNode(MaxInputIdx)>> : g \in GateIdxs}

TreeLists ==
    {<<t>> : t \in LeafTrees \cup StubTrees \cup SmallTrees \cup DeepTrees}
    \cup UNION {[1..n -> SharedTrees] : n \in 2..MaxTrees}

StandardList == <<ANDGATE, ORGATE, XORGATE, NANDGATE>>

GateLists == {[k \in 1..(MaxGateIdx + 1) |-> StandardList[((k - 1 + r) % 4) + 1]] : r \in 0..3}

\* The circuit of tests::test_circuit_eval.
TestCircuit ==
    [gates |-> <<ANDGATE, ORGATE, XORGATE>>,
     input |-> <<"One", "Zero", "One", "Zero">>,
     trees |-> << <<GateNode(0), GateNode(1), GateNode(2),
                    InputNode(0), InputNode(1), InputNode(2), InputNode(3)>> >>]

\* Circuits of three gates and two trees, the second tree over the gate the
\* first tree has at its root: G1(G0(I0, I1), G0(I0, I1)) and
\* G2(G1(I0, I1), G1(I0, I1)).
ChainTrees ==
    << <<GateNode(1), GateNode(0), GateNode(0),
         InputNode(0), InputNode(1), InputNode(0), InputNode(1)>>,
       <<GateNode(2), GateNode(1), GateNode(1),
         InputNode(0), InputNode(1), InputNode(0), InputNode(1)>> >>

ChainCircuits ==
    {[gates |-> [k \in 1..3 |-> StandardList[((k - 1 + r) % 4) + 1]],
      input |-> <<i, j>>, trees |-> ChainTrees] : r \in 0..3, i \in Bit, j \in Bit}

Circuits ==
    {TestCircuit}
    \cup ChainCircuits
    \cup {[gates |-> g, input |-> i, trees |-> t] :
             g \in GateLists, i \in [1..(MaxInputIdx + 1) -> Bit], t \in TreeLists}

InitCircuit ==
    \E c \in Circuits :
        /\ circ_pc = "new"
        /\ gates = c.gates
        /\ input = c.input
        /\ circuit_trees = [k \in 1..Len(c.trees) |-> build_tree(c.trees[k])]
        /\ gate_evals = [k \in 1..Len(c.gates) |-> None]
        /\ output = <<>>
        /\ eval_calls = 0

\* Circuit::eval: the memo is taken out of the circuit, every tree is
\* evaluated from its root, and the memo is put back; an abort leaves the
\* circuit without its memo.
Eval ==
    /\ circ_pc \in {"new", "returned"}
    /\ eval_calls < MaxEvals
    /\ LET r == eval_trees(circuit_trees, gate_evals)
       IN  IF r.ok
           THEN /\ output' = r.out
                /\ gate_evals' = r.evals
                /\ circ_pc' = "returned"
           ELSE /\ output' = output
                /\ gate_evals' = <<>>
                /\ circ_pc' = "aborted"
    /\ eval_calls' = eval_calls + 1
    /\ UNCHANGED <<overflow_checks, hasher, libVars, otVars, encVars, gateVars, gates, input, circuit_trees>>

InitCircuitSpec ==
    /\ overflow_checks \in BOOLEAN
    /\ hasher = "DefaultHasher"
    /\ IdleLib
    /\ IdleOT
    /\ IdleEnc
    /\ IdleGate
    /\ InitCircuit

NextCircuit == Eval

SpecCircuit == InitCircuitSpec /\ [][NextCircuit]_vars

\* Every gate node of the tree has both children inside the tree, and every
\* index is in range.
WellFormedTree(tree) ==
    \A k \in 0..(Len(tree) - 1) :
        LET n == get(tree, k)
        IN  IF n.kind = "Gate"
            THEN InRange(n.idx, Len(gates)) /\ 2 * k + 2 < Len(tree)
            ELSE InRange(n.idx, Len(input))

WellFormedCircuit ==
    \A t \in 1..Len(circuit_trees) :
        Len(circuit_trees[t]) > 0 /\ WellFormedTree(circuit_trees[t])

\* The value of node k without a memo: an input node is its input bit, a gate
\* node is its gate on the values of the nodes 2k+1 and 2k+2.
RECURSIVE NodeValue(_, _)
NodeValue(tree, k) ==
    LET n == get(tree, k)
    IN  IF n.kind = "Input" THEN input[Index(n.idx) + 1]
        ELSE evaluate(gates[Index(n.idx) + 1],
                      <<NodeValue(tree, 2 * k + 1), NodeValue(tree, 2 * k + 2)>>).v

\* C9: the first eval() of a well-formed circuit whose memo is all None
\* returns one Bit per tree, in tree order, each the value of the tree's root
\* computed without a memo, also when a gate index occurs at several nodes or
\* in several trees.
C9_EvalIsUnmemoizedValue ==
    (eval_calls = 1 /\ WellFormedCircuit) =>
        /\ circ_pc = "returned"
        /\ Len(output) = Len(circuit_trees)
        /\ \A t \in 1..Len(circuit_trees) : output[t] = NodeValue(circuit_trees[t], 0)

-----------------------------------------------------------------------------
(* src/garble.rs: compute_garble_table on SimpleGarbledGate<I>, for gates of *)
(* several arities and for the hashers of the model.                         *)

\* The output of the AND, the OR and the XOR of all the bits of an input.
OutputKinds == {"and", "or", "xor"}

OutputOf(kind, inp) ==
    LET ones == Cardinality({k \in 1..Len(inp) : inp[k] = "One"})
    IN  CASE kind = "and" -> IF ones = Len(inp) THEN "One" ELSE "Zero"
          [] kind = "or"  -> IF ones > 0 THEN "One" ELSE "Zero"
          [] kind = "xor" -> IF ones % 2 = 1 THEN "One" ELSE "Zero"

\* Gate::<I>::from_table of the 1 << I rows, given from the last input down.
GateOfArity(I, kind) ==
    from_table([k \in 1..(2^I) |->
                   <<from_usize(2^I - k, I), OutputOf(kind, from_usize(2^I - k, I))>>])

InitKeys ==
    /\ kg_pc = "new"
    /\ kg_garbled = [master_secret |-> Zero64, gate |-> ANDGATE]
    /\ kg_pwds = [ok |-> TRUE, items |-> <<>>]
    /\ kg_table = NoTable

\* SimpleGarbledGate::new(master_secret, gate).compute_garble_table()
GarbleGate ==
    /\ kg_pc = "new"
    /\ \E m \in MasterSecrets, I \in 1..MaxArity, kind \in OutputKinds :
          LET gg == [master_secret |-> m, gate |-> GateOfArity(I, kind)]
              r  == compute_garble_table(gg)
          IN  /\ kg_garbled' = gg
              /\ kg_pwds' = gen_pwds_take(m, NumPwds)
              /\ kg_table' = r.t
              /\ kg_pc' = IF r.ok THEN "returned" ELSE "aborted"
    /\ UNCHANGED <<overflow_checks, hasher, otVars, encVars, gateVars, circVars, stepVars,
                   bitVars, treeVars, wireVars>>

InitGarbleSpec ==
    /\ overflow_checks \in BOOLEAN
    /\ hasher \in Hashers
    /\ IdleOT /\ IdleEnc /\ IdleGate /\ IdleCircuit /\ IdleSteps
    /\ IdleBits /\ IdleTree /\ InitKeys /\ IdleWire

NextGarble == GarbleGate

SpecGarble == InitGarbleSpec /\ [][NextGarble]_vars

\* x -> 11 * x + 3 applied n times, modulo 2^64.
RECURSIVE Derived(_, _)
Derived(x, n) ==
    IF n = 0 THEN x
    ELSE WrappingAdd(MulCarry(Derived(x, n - 1), 11).v, U64(3))

\* C13: for a gate of R rows compute_garble_table takes 3 * R derived
\* secrets, derived secret k being x -> 11 * x + 3 applied k + 1 times to the
\* master secret, and row r of the gate's table has its left input encrypted
\* with secret 3r and its right input with secret 3r + 1.
C13_KeySchedule ==
    (kg_pc # "new" /\ kg_pwds.ok) =>
        LET table == table_of(kg_garbled.gate)
            pwds  == kg_pwds.items
        IN  /\ Len(pwds) = 3 * Len(table)
            /\ \A k \in 0..(Len(pwds) - 1) :
                  pwds[k + 1] = Derived(kg_garbled.master_secret, k + 1)
            /\ kg_pc = "returned" =>
                  \A r \in 0..(Len(table) - 1) :
                      LET inp == table[r + 1][1]
                      IN  kg_table.input_enc_map[inp] =
                              <<WrappingAdd(pwds[3 * r + 1], BitIntoU64(inp[1])),
                                WrappingAdd(pwds[3 * r + 2], BitIntoU64(inp[2]))>>

\* x -> 11 * x + 3 applied to x stays below 2^64.
DerivationFits(x) ==
    /\ MulCarry(x, 11).c = 0
    /\ AddCarry(MulCarry(x, 11).v, U64(3)).c = 0

\* The encrypted inputs of row r and their concatenation stay below 2^64.
RowFits(m, inp, r) ==
    LET e0 == AddCarry(Derived(m, 3 * r + 1), BitIntoU64(inp[1]))
        e1 == AddCarry(Derived(m, 3 * r + 2), BitIntoU64(inp[2]))
    IN  e0.c = 0 /\ e1.c = 0 /\ AddCarry(e0.v, e1.v).c = 0

\* C24: for every master secret the 12 derived secrets, the encrypted wire
\* values and the concatenations of a gate of arity 2 are computed without
\* exceeding 2^64 - 1, the call returns, and the derived secrets are strictly
\* increasing and pairwise distinct.
C24_ArithmeticStaysInWord ==
    (kg_pc # "new" /\ Len(table_of(kg_garbled.gate)) = 4) =>
        LET m == kg_garbled.master_secret
        IN  /\ kg_pc = "returned"
            /\ \A k \in 0..(NumPwds - 1) : DerivationFits(Derived(m, k))
            /\ \A r \in 0..3 : RowFits(m, table_of(kg_garbled.gate)[r + 1][1], r)
            /\ \A k \in 1..(NumPwds - 1) : Less64(Derived(m, k), Derived(m, k + 1))
            /\ \A j, k \in 1..NumPwds : j # k => Derived(m, j) # Derived(m, k)

\* C18: compute_garble_table does not return a GarbledTable whose
\* hash_out_map has fewer entries than the gate has rows: when two rows have
\* the same lookup key the call fails.
C18_CollisionIsFatal ==
    kg_pc = "returned" =>
        Cardinality(DOMAIN kg_table.hash_out_map) = Len(table_of(kg_garbled.gate))

-----------------------------------------------------------------------------
(* src/circuit.rs: a CircuitTree built by push_gate_idx and push_input_idx   *)
(* and read by get.                                                          *)

\* The indices pushed: small ones, and the ones around 2^62, 2^63 and 2^64.
SmallIdxs == {U64(0), U64(1)}

EdgeIdxs ==
    {WrappingSub(IdxLimit, U64(1)), IdxLimit, WrappingAdd(IdxLimit, U64(1)),
     WrappingSub(MSB_MASK, U64(1)), MSB_MASK, Max64}

TreeIdxs == SmallIdxs \cup EdgeIdxs

InitTree ==
    /\ tree_pc = "open"
    /\ tree_inner = new_tree
    /\ tree_pushes = <<>>
    /\ tree_rejected = <<>>
    /\ tree_got = <<>>

\* tree.push_gate_idx(gidx)
PushGate ==
    /\ tree_pc = "open"
    /\ Len(tree_inner) < MaxPushes
    /\ \E gidx \in TreeIdxs :
          LET r == push_gate_idx(tree_inner, gidx)
          IN  /\ tree_inner' = r.inner
              /\ IF r.ok
                 THEN /\ tree_pushes' = Append(tree_pushes, <<"Gate", gidx>>)
                      /\ UNCHANGED <<tree_pc, tree_rejected>>
                 ELSE /\ tree_pc' = "aborted"
                      /\ tree_rejected' = <<"Gate", gidx>>
                      /\ UNCHANGED tree_pushes
    /\ UNCHANGED <<overflow_checks, hasher, otVars, encVars, gateVars, circVars, stepVars,
                   bitVars, keyVars, wireVars, tree_got>>

\* tree.push_input_idx(iidx)
PushInput ==
    /\ tree_pc = "open"
    /\ Len(tree_inner) < MaxPushes
    /\ \E iidx \in TreeIdxs :
          LET r == push_input_idx(tree_inner, iidx)
          IN  /\ tree_inner' = r.inner
              /\ IF r.ok
                 THEN /\ tree_pushes' = Append(tree_pushes, <<"Input", iidx>>)
                      /\ UNCHANGED <<tree_pc, tree_rejected>>
                 ELSE /\ tree_pc' = "aborted"
                      /\ tree_rejected' = <<"Input", iidx>>
                      /\ UNCHANGED tree_pushes
    /\ UNCHANGED <<overflow_checks, hasher, otVars, encVars, gateVars, circVars, stepVars,
                   bitVars, keyVars, wireVars, tree_got>>

\* tree.get(idx), also one past the end.
Get ==
    /\ tree_pc = "open"
    /\ \E idx \in 0..Len(tree_inner) :
          LET r == get(tree_inner, idx)
          IN  /\ tree_got' = <<idx, r>>
              /\ tree_pc' = IF r.ok THEN "open" ELSE "aborted"
    /\ UNCHANGED <<overflow_checks, hasher, otVars, encVars, gateVars, circVars, stepVars,
                   bitVars, keyVars, wireVars, tree_inner, tree_pushes, tree_rejected>>

InitTreeSpec ==
    /\ overflow_checks \in BOOLEAN
    /\ hasher = "DefaultHasher"
    /\ IdleOT /\ IdleEnc /\ IdleGate /\ IdleCircuit /\ IdleSteps
    /\ IdleBits /\ InitTree /\ IdleKeys /\ IdleWire

NextTree ==
    \/ PushGate
    \/ PushInput
    \/ Get

SpecTree == InitTreeSpec /\ [][NextTree]_vars

\* What get is to return for a push.
Pushed(push) == [ok |-> TRUE, kind |-> push[1], idx |-> push[2]]

\* C14: after any pushes of indices below 2^62, get(n) returns the kind and
\* the index of the n-th push: (Gate, g) for push_gate_idx(g), (Input, i) for
\* push_input_idx(i), the index unchanged.
C14_TagPackingExact ==
    /\ Len(tree_inner) = Len(tree_pushes)
    /\ \A n \in 0..(Len(tree_pushes) - 1) : get(tree_inner, n) = Pushed(tree_pushes[n + 1])
    /\ (tree_got # <<>> /\ tree_got[1] < Len(tree_pushes)) =>
          tree_got[2] = Pushed(tree_pushes[tree_got[1] + 1])

\* get(1) has returned (Input, 2^62 - 1) after push_gate_idx(2^62 - 1) and
\* push_input_idx(2^62 - 1).
C14_Witness ==
    /\ tree_pushes = <<<<"Gate", WrappingSub(IdxLimit, U64(1))>>,
                       <<"Input", WrappingSub(IdxLimit, U64(1))>>>>
    /\ tree_got = <<1, [ok |-> TRUE, kind |-> "Input", idx |-> WrappingSub(IdxLimit, U64(1))]>>

\* What a step does to the tree: a push that aborts had an index >= 2^62 and
\* leaves inner as it was, a push that returns had an index < 2^62 and
\* appended one entry, and every push does the one or the other.
PushOutcome ==
    /\ (tree_rejected' # tree_rejected) =>
          /\ ~Less64(tree_rejected'[2], IdxLimit)
          /\ tree_pc' = "aborted"
          /\ tree_inner' = tree_inner
    /\ (tree_pushes' # tree_pushes) =>
          /\ Less64(tree_pushes'[Len(tree_pushes')][2], IdxLimit)
          /\ tree_pc' = "open"
          /\ Len(tree_inner') = Len(tree_inner) + 1
          /\ SubSeq(tree_inner', 1, Len(tree_inner)) = tree_inner
    /\ (tree_got' = tree_got) =>
          (tree_rejected' # tree_rejected \/ tree_pushes' # tree_pushes)

-----------------------------------------------------------------------------
(* src/gate.rs: BitArray<I> from a usize and back, and from an array and    *)
(* back.                                                                     *)

InitBits ==
    /\ ba_arity = 0
    /\ ba_value0 = 0
    /\ ba_bits = <<>>
    /\ ba_usize = 0
    /\ ba_calls = <<>>

\* BitArray::<I>::from(value): of an index below 1 << I, or of the usize the
\* array before was converted to.
FromUsize ==
    /\ \/ /\ ba_calls = <<>>
          /\ \E I \in 0..MaxBits, index \in 0..(2^MaxBits - 1) :
                /\ index < 2^I
                /\ ba_arity' = I
                /\ ba_value0' = index
                /\ ba_bits' = from_usize(index, I)
          /\ UNCHANGED ba_usize
       \/ /\ ba_calls = <<"into">>
          /\ ba_bits' = from_usize(ba_usize, ba_arity)
          /\ UNCHANGED <<ba_arity, ba_value0, ba_usize>>
    /\ ba_calls' = Append(ba_calls, "from")
    /\ UNCHANGED <<overflow_checks, hasher, otVars, encVars, gateVars, circVars, stepVars,
                   treeVars, keyVars, wireVars>>

\* usize::from(bit_array): of BitArray::new(inner), or of the array the index
\* before was converted to.
IntoUsize ==
    /\ \/ /\ ba_calls = <<>>
          /\ \E I \in 0..MaxBits :
                \E inner \in [1..I -> Bit] :
                    /\ ba_arity' = I
                    /\ ba_value0' = inner
                    /\ ba_bits' = inner
                    /\ ba_usize' = into_usize(inner)
       \/ /\ ba_calls = <<"from">>
          /\ ba_usize' = into_usize(ba_bits)
          /\ UNCHANGED <<ba_arity, ba_value0, ba_bits>>
    /\ ba_calls' = Append(ba_calls, "into")
    /\ UNCHANGED <<overflow_checks, hasher, otVars, encVars, gateVars, circVars, stepVars,
                   treeVars, keyVars, wireVars>>

InitBitsSpec ==
    /\ overflow_checks \in BOOLEAN
    /\ hasher = "DefaultHasher"
    /\ IdleOT /\ IdleEnc /\ IdleGate /\ IdleCircuit /\ IdleSteps
    /\ InitBits /\ IdleTree /\ IdleKeys /\ IdleWire

NextBits ==
    \/ FromUsize
    \/ IntoUsize

SpecBits == InitBitsSpec /\ [][NextBits]_vars

\* C16: an index below 2^I converted to BitArray<I> and back is the index,
\* and an array of I bits converted to usize, most significant bit first,
\* and back is the array.
C16_BitArrayRoundTrip ==
    /\ ba_calls = <<"from", "into">> => ba_usize = ba_value0
    /\ ba_calls = <<"into", "from">> => ba_bits = ba_value0
    /\ ba_calls # <<>> =>
          /\ Len(ba_bits) = ba_arity
          /\ ba_calls[1] = "into" =>
                ba_usize = IF ba_arity = 0 THEN 0
                           ELSE BitRank(ba_value0[1]) * 2^(ba_arity - 1)
                                + into_usize(Tail(ba_value0))

\* 5 has gone to [One, Zero, One] and back, as in test_bitarray_to_usize.
C16_Witness ==
    /\ ba_calls = <<"from", "into">>
    /\ ba_value0 = 5
    /\ ba_bits = <<"One", "Zero", "One">>
    /\ ba_usize = 5

-----------------------------------------------------------------------------
(* src/circuit.rs: the memo hit of eval_tree *)

\* The circuit has one tree, its root is a gate node, and the memo slot of
\* that gate is set: eval() hits the memo at the root.
RootGate == Index(get(circuit_trees[1], 0).idx)

RootMemoHit ==
    /\ Len(circuit_trees) = 1
    /\ Len(circuit_trees[1]) > 0
    /\ get(circuit_trees[1], 0).kind = "Gate"
    /\ InRange(get(circuit_trees[1], 0).idx, Len(gate_evals))
    /\ gate_evals[RootGate + 1].some

\* A call of eval() that hits the memo at the root returns the value in the
\* slot of the root's gate and leaves the memo as it was.
MemoHitOutcome ==
    (RootMemoHit /\ eval_calls' = eval_calls + 1) =>
        /\ circ_pc' = "returned"
        /\ output' = <<gate_evals[RootGate + 1].v>>
        /\ gate_evals' = gate_evals

\* eval_tree with a memo that is read at the slot of the gate reached, on a
\* well-formed circuit: the value of the node and the memo after it.
RECURSIVE MemoValue(_, _, _)
MemoValue(k, tree, evals) ==
    LET n == get(tree, k)
        g == Index(n.idx)
    IN  IF n.kind = "Input" THEN [val |-> input[g + 1], evals |-> evals]
        ELSE IF evals[g + 1].some THEN [val |-> evals[g + 1].v, evals |-> evals]
        ELSE LET l   == MemoValue(2 * k + 1, tree, evals)
                 r   == MemoValue(2 * k + 2, tree, l.evals)
                 res == evaluate(gates[g + 1], <<l.val, r.val>>).v
             IN  [val |-> res, evals |-> [r.evals EXCEPT ![g + 1] = Some(res)]]

\* The memo after the roots of the trees, in order.
RECURSIVE MemoAfter(_, _)
MemoAfter(trees, evals) ==
    IF trees = <<>> THEN evals
    ELSE MemoAfter(Tail(trees), MemoValue(0, Head(trees), evals).evals)

\* The gates that occur at a node of a tree.
GatesInTrees ==
    UNION {{Index(get(circuit_trees[t], k).idx) :
               k \in {j \in 0..(Len(circuit_trees[t]) - 1) :
                          get(circuit_trees[t], j).kind = "Gate"}} :
           t \in 1..Len(circuit_trees)}

\* The memo after the first eval() of a well-formed circuit has returned.
MemoPopulated ==
    (eval_calls = 1 /\ circ_pc = "returned" /\ WellFormedCircuit) =>
        /\ Len(gate_evals) = Len(gates)
        /\ \A g \in 0..(Len(gates) - 1) : g \notin GatesInTrees => ~gate_evals[g + 1].some
        /\ gate_evals = MemoAfter(circuit_trees, [k \in 1..Len(gates) |-> None])

\* A call of eval() that returns leaves the memo at its length and the
\* circuit as it was.
MemoRestored ==
    (eval_calls' = eval_calls + 1 /\ circ_pc' = "returned") =>
        /\ Len(gate_evals') = Len(gate_evals)
        /\ gates' = gates /\ input' = input /\ circuit_trees' = circuit_trees

SecondEvalSame ==
    (eval_calls = 1 /\ circ_pc = "returned" /\ WellFormedCircuit
        /\ eval_calls' = eval_calls + 1) =>
        /\ circ_pc' = "returned"
        /\ output' = output

\* C22: a second eval() on the same circuit, the memo left as the first call
\* left it, returns the same outputs as the first and does not abort.
C22_ReevaluationIdempotent == [][SecondEvalSame]_vars

\* C17: when eval_tree reaches a gate node g whose slot evals[g] is set it
\* returns the value in evals[g], without evaluating the children and
\* without an abort.
C17_MemoHitReturnsOwnValue == [][MemoHitOutcome]_vars

-----------------------------------------------------------------------------
(* Garbled::encrypt_with and Garbled::decrypt_with, as the trait declares    *)
(* them (the secret first), on the implementation of src/garble.rs and on    *)
(* the one of src/lib.rs.                                                    *)

\* lib.rs, GarbledGate::encrypt_with(p, pout): p + pout.as_u64()
GarbledGate_encrypt_with(p, pout) == Add(p, BitIntoU64(pout))

\* lib.rs, GarbledGate::decrypt_with(value, p): Bit::from_u64(value - p)
GarbledGate_decrypt_with(value, p) ==
    LET r == Sub(value, p)
    IN  [ok |-> r.ok, v |-> BitFromU64(r.v)]

GarbledImpls == {"SimpleGarbledGate", "GarbledGate"}

\* The trait calls Self::encrypt_with(psswd, output) and
\* Self::decrypt_with(psswd, value): the arguments are bound by position.
trait_encrypt_with(impl, psswd, out) ==
    IF impl = "SimpleGarbledGate" THEN encrypt_with(psswd, out)
    ELSE GarbledGate_encrypt_with(psswd, out)

trait_decrypt_with(impl, psswd, value) ==
    IF impl = "SimpleGarbledGate" THEN decrypt_with(psswd, value)
    ELSE GarbledGate_decrypt_with(psswd, value)

InitWire ==
    /\ wire_impl = "SimpleGarbledGate"
    /\ wire_secret = Zero64
    /\ wire_bit = "Zero"
    /\ wire_enc = Ok(Zero64)
    /\ wire_dec = [ok |-> TRUE, v |-> "Zero"]
    /\ wire_pc = "new"

\* Self::encrypt_with(s, b)
EncryptWith ==
    /\ wire_pc = "new"
    /\ \E impl \in GarbledImpls, s \in MasterSecrets, b \in Bit :
          LET r == trait_encrypt_with(impl, s, b)
          IN  /\ wire_impl' = impl
              /\ wire_secret' = s
              /\ wire_bit' = b
              /\ wire_enc' = r
              /\ wire_pc' = IF r.ok THEN "encrypted" ELSE "aborted"
    /\ UNCHANGED <<overflow_checks, hasher, otVars, encVars, gateVars, circVars, stepVars,
                   bitVars, treeVars, keyVars, wire_dec>>

\* Self::decrypt_with(s, e) on the value encrypt_with returned
DecryptWith ==
    /\ wire_pc = "encrypted"
    /\ LET r == trait_decrypt_with(wire_impl, wire_secret, wire_enc.v)
       IN  /\ wire_dec' = r
           /\ wire_pc' = IF r.ok THEN "decrypted" ELSE "aborted"
    /\ UNCHANGED <<overflow_checks, hasher, otVars, encVars, gateVars, circVars, stepVars,
                   bitVars, treeVars, keyVars, wire_impl, wire_secret, wire_bit, wire_enc>>

InitWireSpec ==
    /\ overflow_checks \in BOOLEAN
    /\ hasher = "DefaultHasher"
    /\ IdleOT /\ IdleEnc /\ IdleGate /\ IdleCircuit /\ IdleSteps
    /\ IdleBits /\ IdleTree /\ IdleKeys /\ InitWire

NextWire ==
    \/ EncryptWith
    \/ DecryptWith

SpecWire == InitWireSpec /\ [][NextWire]_vars

\* C20: for both implementations, every secret s and both bits b,
\* decrypt_with(s, encrypt_with(s, b)) returns b, and neither call aborts.
C20_WireEncryptionInvertible ==
    /\ wire_pc # "aborted"
    /\ wire_pc = "decrypted" => wire_dec = [ok |-> TRUE, v |-> wire_bit]

-----------------------------------------------------------------------------
(* src/circuit.rs: eval() one call of eval_tree at a time.  A call in       *)
(* progress is a frame: its node, the place it has reached (it has just     *)
(* been entered, it waits for its left child, it waits for its right        *)
(* child), the gidx bound by its match and the value of the left child     *)
(* once that is known.                                                     *)

Frame(node) == [node |-> node, phase |-> "enter", gidx |-> 0, left |-> "Zero"]

\* After the left child the call goes back to wait for the left child.
next_phase_left_again(phase) == "left"

\* eval_tree lines 54-55: after the left child comes the right child.
next_phase(phase) == IF phase = "enter" THEN "left" ELSE "right"

\* The argument of the recursive call: node_idx * 2 + 1, node_idx * 2 + 2.
child(node, phase) == IF phase = "left" THEN node * 2 + 1 ELSE node * 2 + 2

CurrentTree == circuit_trees[st_tree]

\* The circuits eval() is stepped on: gates 0 .. MaxGateIdx or one fewer,
\* every tree list of the model and no tree at all, and any memo.
StepInput == [k \in 1..(MaxInputIdx + 1) |-> IF k % 2 = 1 THEN "One" ELSE "Zero"]

StepGateLists == {SubSeq(StandardList, 1, n) : n \in {MaxGateIdx, MaxGateIdx + 1}}

Memos(n) == [1..n -> {None, Some("Zero"), Some("One")}]

InitSteps ==
    /\ \E g \in StepGateLists, t \in TreeLists \cup {<<>>} :
          /\ gates = g
          /\ input = StepInput
          /\ circuit_trees = [k \in 1..Len(t) |-> build_tree(t[k])]
          /\ gate_evals \in Memos(Len(g))
    /\ circ_pc = "new"
    /\ output = <<>>
    /\ eval_calls = 0
    /\ st_pc = "new"
    /\ st_stack = <<>>
    /\ st_evals = <<>>
    /\ st_tree = 0
    /\ st_out = <<>>
    /\ st_ret = None

\* What a step of eval_tree leaves: the position of eval, the calls in
\* progress, the memo and the Bit returned.
StepResult(p, stack, evals, ret) == [pc |-> p, stack |-> stack, evals |-> evals, ret |-> ret]

\* eval, line 30: the memo is taken out of the circuit, and the map starts at
\* the root of the first tree.
EvalStart ==
    /\ st_pc = "new"
    /\ st_pc' = "running"
    /\ st_evals' = gate_evals
    /\ gate_evals' = <<>>
    /\ st_tree' = 1
    /\ st_stack' = IF Len(circuit_trees) = 0 THEN <<>> ELSE <<Frame(0)>>
    /\ st_out' = <<>>
    /\ st_ret' = None
    /\ UNCHANGED <<overflow_checks, hasher, otVars, encVars, gateVars, bitVars, treeVars,
                   keyVars, wireVars, circ_pc, gates, input, circuit_trees, output, eval_calls>>

\* eval_tree, lines 47-54: the match on n = tree.get(node_idx), up to the
\* call for the left child; gidx is bound by the match.
enter_node(n, stack, evals) ==
    LET top     == stack[Len(stack)]
        rest    == SubSeq(stack, 1, Len(stack) - 1)
        aborted == StepResult("aborted", stack, evals, None)
    IN  IF ~n.ok THEN aborted
        ELSE IF n.kind = "Input"
        THEN IF InRange(n.idx, Len(input))
             THEN StepResult("running", rest, evals, Some(input[Index(n.idx) + 1]))
             ELSE aborted
        ELSE IF ~InRange(n.idx, Len(evals)) THEN aborted
        ELSE IF evals[Index(n.idx) + 1].some
        THEN LET h == memo_hit(evals, Index(n.idx))
             IN  IF h.ok THEN StepResult("running", rest, evals, Some(h.val)) ELSE aborted
        ELSE IF ~InRange(n.idx, Len(gates)) THEN aborted
        ELSE LET ph == next_phase(top.phase)
             IN  StepResult("running",
                            rest \o <<[top EXCEPT !.phase = ph, !.gidx = Index(n.idx)],
                                      Frame(child(top.node, ph))>>,
                            evals, None)

EnterNode ==
    /\ st_pc = "running"
    /\ ~st_ret.some
    /\ st_stack # <<>>
    /\ st_stack[Len(st_stack)].phase = "enter"
    /\ \E n \in {get(circuit_trees[st_tree], st_stack[Len(st_stack)].node)} :
       \E r \in {enter_node(n, st_stack, st_evals)} :
          /\ st_pc' = r.pc
          /\ st_stack' = r.stack
          /\ st_evals' = r.evals
          /\ st_ret' = r.ret
    /\ UNCHANGED <<overflow_checks, hasher, otVars, encVars, gateVars, bitVars, treeVars,
                   keyVars, wireVars, circVars, st_tree, st_out>>

\* eval_tree, lines 54-55: the left child has returned val, the right child
\* is called.
return_from_left(stack, val) ==
    LET top == stack[Len(stack)]
        ph  == next_phase(top.phase)
    IN  SubSeq(stack, 1, Len(stack) - 1)
            \o <<[top EXCEPT !.phase = ph, !.left = val], Frame(child(top.node, ph))>>

ReturnFromLeft ==
    /\ st_pc = "running"
    /\ st_ret.some
    /\ st_stack # <<>>
    /\ st_stack[Len(st_stack)].phase = "left"
    /\ st_stack' = return_from_left(st_stack, st_ret.v)
    /\ st_ret' = None
    /\ UNCHANGED <<overflow_checks, hasher, otVars, encVars, gateVars, bitVars, treeVars,
                   keyVars, wireVars, circVars, st_pc, st_evals, st_tree, st_out>>

\* eval_tree, lines 56-58: the right child has returned; res is the gate
\* evaluated on the two values, the memo is set and the call returns.
return_from_right(res, stack, evals) ==
    IF res.ok
    THEN StepResult("running", SubSeq(stack, 1, Len(stack) - 1),
                    [evals EXCEPT ![stack[Len(stack)].gidx + 1] = Some(res.v)], Some(res.v))
    ELSE StepResult("aborted", stack, evals, None)

ReturnFromRight ==
    /\ st_pc = "running"
    /\ st_ret.some
    /\ st_stack # <<>>
    /\ st_stack[Len(st_stack)].phase = "right"
    /\ \E res \in {evaluate(gates[st_stack[Len(st_stack)].gidx + 1],
                              <<st_stack[Len(st_stack)].left, st_ret.v>>)} :
       \E r \in {return_from_right(res, st_stack, st_evals)} :
          /\ st_pc' = r.pc
          /\ st_stack' = r.stack
          /\ st_evals' = r.evals
          /\ st_ret' = r.ret
    /\ UNCHANGED <<overflow_checks, hasher, otVars, encVars, gateVars, bitVars, treeVars,
                   keyVars, wireVars, circVars, st_tree, st_out>>

\* eval, lines 33-35: the root of a tree has returned; its Bit is collected
\* and the map goes to the next tree.
FinishTree ==
    /\ st_pc = "running"
    /\ st_ret.some
    /\ st_stack = <<>>
    /\ st_out' = Append(st_out, st_ret.v)
    /\ st_ret' = None
    /\ st_tree' = st_tree + 1
    /\ st_stack' = IF st_tree < Len(circuit_trees) THEN <<Frame(0)>> ELSE <<>>
    /\ UNCHANGED <<overflow_checks, hasher, otVars, encVars, gateVars, bitVars, treeVars,
                   keyVars, wireVars, circVars, st_pc, st_evals>>

\* eval, lines 36-37: the memo is put back and the output returned.
EvalReturn ==
    /\ st_pc = "running"
    /\ ~st_ret.some
    /\ st_stack = <<>>
    /\ st_tree > Len(circuit_trees)
    /\ gate_evals' = st_evals
    /\ output' = st_out
    /\ st_pc' = "returned"
    /\ UNCHANGED <<overflow_checks, hasher, otVars, encVars, gateVars, bitVars, treeVars,
                   keyVars, wireVars, circ_pc, gates, input, circuit_trees, eval_calls,
                   st_stack, st_evals, st_tree, st_out, st_ret>>

InitStepsSpec ==
    /\ overflow_checks \in BOOLEAN
    /\ hasher = "DefaultHasher"
    /\ IdleOT /\ IdleEnc /\ IdleGate
    /\ IdleBits /\ IdleTree /\ IdleKeys /\ IdleWire
    /\ InitSteps

NextSteps ==
    \/ EvalStart
    \/ EnterNode
    \/ ReturnFromLeft
    \/ ReturnFromRight
    \/ FinishTree
    \/ EvalReturn

\* The thread that runs eval() keeps running: a step that can be taken is
\* taken.
SpecSteps == InitStepsSpec /\ [][NextSteps]_vars /\ WF_vars(NextSteps)

\* The calls in progress are at strictly larger positions from the outermost
\* to the innermost, each position 2k + 1 or 2k + 2 of the one before, and
\* every call that has passed its match is at a position inside the tree.
StackAscends ==
    \A i \in 1..Len(st_stack) :
        /\ i > 1 => /\ st_stack[i].node > st_stack[i - 1].node
                    /\ st_stack[i].node \in {2 * st_stack[i - 1].node + 1,
                                              2 * st_stack[i - 1].node + 2}
        /\ st_stack[i].phase # "enter" => st_stack[i].node < Len(CurrentTree)

EvalEnded == st_pc \in {"returned", "aborted"}

====
